---- MODULE Spec2Model ----
(***************************************************************************)
(* map-filter-js: the single-pass filter+map operation.                    *)
(*                                                                         *)
(* Two variants of the operation are modelled:                             *)
(*   "legacy"  src/index.js   mapFilter(array, filter, template)           *)
(*             (src/filterMap.js is the same code with other names)        *)
(*   "ts"      src/src/index.ts                                            *)
(*             mapFilter(array, filter, template, handleSparse = false)    *)
(*                                                                         *)
(* One behaviour of the model is one call: Call validates the arguments,   *)
(* Iterate is one turn of the for loop, Return is the loop's exit.  The    *)
(* variables below are the parameters and locals of the call that is       *)
(* running; suspended holds those of a second call that is under way at    *)
(* the same time (SpecInterleaved), and no call otherwise.                 *)
(***************************************************************************)
EXTENDS Integers, Sequences, FiniteSets, TLC

VARIABLES variant, array, filter, template, handleSparse,
          heap, pc, index, newArray, calls, result, error, suspended

vars == <<variant, array, filter, template, handleSparse,
          heap, pc, index, newArray, calls, result, error, suspended>>

\* Longest input array drawn by Init.
MaxLen == 3

(***************************************************************************)
(* JavaScript values.  Every value is a record of the same shape:          *)
(*   t  the kind of value, n a number, s a sequence of strings.            *)
(* A function carries its declared parameter count (Function.length) in n  *)
(* and <<name, body>> in s; an array carries its reference in n, and its   *)
(* slots live in heap[n].                                                  *)
(***************************************************************************)
Num(k) == [t |-> "number", n |-> k, s |-> <<>>]

Undefined == [t |-> "undefined", n |-> 0, s |-> <<>>]

Null == [t |-> "null", n |-> 0, s |-> <<>>]

Bool(b) == [t |-> "boolean", n |-> IF b THEN 1 ELSE 0, s |-> <<>>]

Str(tokens) == [t |-> "string", n |-> 0, s |-> tokens]

Obj == [t |-> "object", n |-> 0, s |-> <<>>]

Fn(name, length, body) == [t |-> "function", n |-> length, s |-> <<name, body>>]

Arr(ref) == [t |-> "array", n |-> ref, s |-> <<>>]

\* An array slot that holds no value (a hole of a sparse array).
Hole == [t |-> "hole", n |-> 0, s |-> <<>>]

\* The completion of a call that threw: `throw new Error(msg)`.
Raised(msg) == [t |-> "raised", n |-> 0, s |-> msg]

IsRaised(v) == v.t = "raised"

FnName(f) == f.s[1]

FnLength(f) == f.n

FnBody(f) == f.s[2]

\* ToBoolean, as the `if (filter(...))` of the loop applies it.
Truthy(v) ==
    CASE v.t = "number" -> v.n # 0
      [] v.t = "boolean" -> v.n = 1
      [] v.t = "string" -> v.s # <<>>
      [] v.t \in {"undefined", "null"} -> FALSE
      [] OTHER -> TRUE

\* ToString, as a template literal applies it to a primitive.
ToStr(v) ==
    CASE v.t = "number" -> ToString(v.n)
      [] v.t = "undefined" -> "undefined"
      [] v.t = "null" -> "null"
      [] v.t = "boolean" -> IF v.n = 1 THEN "true" ELSE "false"
      [] OTHER -> "[object Object]"

\* Array.isArray(v)
IsArray(v) == v.t = "array"

\* v instanceof Function
IsFunction(v) == v.t = "function"

\* v.constructor.name, for a value that has a constructor.
ConstructorName(v) ==
    CASE v.t = "object" -> "Object"
      [] v.t = "string" -> "String"
      [] v.t = "number" -> "Number"
      [] v.t = "boolean" -> "Boolean"
      [] v.t = "array" -> "Array"
      [] v.t = "function" -> "Function"

\* Reading a property of null or undefined throws.
HasProperties(v) == v.t \notin {"null", "undefined"}

\* v.name ? v.name : "Anonymous"
NameOrAnonymous(v) ==
    IF IsFunction(v) /\ FnName(v) # "" THEN FnName(v) ELSE "Anonymous"

(***************************************************************************)
(* Errors.  origin tells the throw statement of the repository             *)
(* ("checkArgument", "mapFilter") from an error the engine raises itself   *)
(* ("engine": a property read of null/undefined, a call of a non-function).*)
(***************************************************************************)
NoError == [kind |-> "none", origin |-> "none", msg |-> <<>>]

Err(kind, origin, msg) == [kind |-> kind, origin |-> origin, msg |-> msg]

PropertyError(v, prop) ==
    Err("TypeError", "engine",
        <<"Cannot read properties of ", ToStr(v), " (reading '", prop, "')">>)

NotAFunctionError(what) ==
    Err("TypeError", "engine", <<what, " is not a function">>)

\* The error a callback threw, as the caller of mapFilter catches it.
CallbackError(completion) == Err("Error", "callback", completion.s)

\* `i in array`
In(i, arr) == i < Len(arr) /\ arr[i + 1] # Hole

\* array[i]
Get(arr, i) == IF In(i, arr) THEN arr[i + 1] ELSE Undefined

\* Calling a callable with an argument list: the k-th argument, undefined
\* when the caller passed fewer.
Arg(args, k) == IF k <= Len(args) THEN args[k] ELSE Undefined

(***************************************************************************)
(* The callbacks the calls are made with.  A body reads its arguments      *)
(* whatever the declared parameter count is (rest parameters, arguments,   *)
(* a jest.fn() mock).  Apply is what the call completes with: the value    *)
(* returned, or Raised when the body throws; Effect is what the body does  *)
(* to the heap, for a callback that closes over the input array.           *)
(***************************************************************************)
\* The reference of the input array, when the first argument is one.
InputRef == 1

\* The element a callback appends to the input array.
Appended == Num(2)

Apply(f, args) ==
    LET x == Arg(args, 1)
        i == Arg(args, 2)
        body == FnBody(f)
    IN CASE body = "true" -> Bool(TRUE)
         [] body = "notNull" -> Bool(x.t \notin {"undefined", "null"})
         [] body = "notNaN" -> Bool(TRUE)
         [] body = "evenIndex" -> Bool(i.t = "number" /\ i.n % 2 = 0)
         [] body = "identity" -> x
         [] body = "join" -> Str(<<ToStr(x), "-", ToStr(i)>>)
         [] body = "index" -> i
         [] body = "newObject" -> Obj
         [] body = "throwOnOne" ->
               IF x = Num(1) THEN Raised(<<"boom">>) ELSE Bool(TRUE)
         [] body \in {"pushTrue", "pushOnce", "popTrue"} -> Bool(TRUE)
         [] body \in {"pushIdentity", "popIdentity"} -> x

\* array.push(Appended)
ArrayPush(h) == [h EXCEPT ![InputRef] = Append(@, Appended)]

\* array.pop()
ArrayPop(h) ==
    [h EXCEPT ![InputRef] = IF @ = <<>> THEN @ ELSE SubSeq(@, 1, Len(@) - 1)]

Effect(f, args, h) ==
    LET body == FnBody(f)
    IN CASE body \in {"pushTrue", "pushIdentity"} -> ArrayPush(h)
         [] body = "pushOnce" -> IF Arg(args, 2) = Num(0) THEN ArrayPush(h) ELSE h
         [] body \in {"popTrue", "popIdentity"} -> ArrayPop(h)
         [] OTHER -> h

Filters ==
    { Fn("", 0, "true"),                \* () => true
      Fn("", 1, "notNull"),             \* (x) => x != null
      Fn("", 1, "notNaN"),              \* (x) => !Number.isNaN(x)
      Fn("", 2, "evenIndex"),           \* (_, index) => index % 2 === 0
      Fn("", 1, "identity"),            \* (x) => x
      Fn("", 1, "evenIndex"),           \* (x, ...rest) => rest[0] % 2 === 0
      Fn("invalidFilter", 3, "true"),   \* (element, index, any) => true
      Null, Num(5) }

Templates ==
    { Fn("", 1, "identity"),                   \* (x) => x
      Fn("", 2, "join"),                       \* (x, index) => `${x}-${index}`
      Fn("", 1, "index"),                      \* (x, ...rest) => rest[0]
      Fn("", 0, "newObject"),                  \* () => new Object()
      Fn("invalidTemplate", 3, "newObject"),   \* (element, index, any) => new Object()
      Undefined, Str(<<"abc">>) }

Values == {Num(0), Num(1), Undefined, Null}

Slots == Values \cup {Hole}

ArrayContents == UNION {[1..n -> Slots] : n \in 0..MaxLen}

NonArrays == {Obj, Str(<<"string">>), Num(123), Bool(TRUE), Null, Undefined}

\* Callbacks that throw, and callbacks that change the length of the array
\* they are called on.
EffectFilters ==
    { Fn("", 1, "notNaN"),       \* (x) => !Number.isNaN(x)
      Fn("", 1, "identity"),     \* (x) => x
      Fn("", 1, "throwOnOne"),   \* (x) => { if (x === 1) throw new Error("boom"); return true; }
      Fn("", 1, "pushTrue"),     \* (x) => { array.push(2); return true; }
      Fn("", 2, "pushOnce"),     \* (x, i) => { if (i === 0) array.push(2); return true; }
      Fn("", 1, "popTrue") }     \* (x) => { array.pop(); return true; }

EffectTemplates ==
    { Fn("", 1, "identity"),       \* (x) => x
      Fn("", 1, "throwOnOne"),     \* (x) => { if (x === 1) throw new Error("boom"); return true; }
      Fn("", 1, "pushIdentity"),   \* (x) => { array.push(2); return x; }
      Fn("", 1, "popIdentity") }   \* (x) => { array.pop(); return x; }

\* How far callbacks may grow the array before the model stops following
\* the call.
MaxGrowth == 2

(***************************************************************************)
(* Validation of the legacy variant.                                       *)
(***************************************************************************)
\* checkArgument(predicate, errorMessage)
checkArgument(predicate, errorMessage) ==
    IF predicate = FALSE THEN Err("Error", "checkArgument", errorMessage)
    ELSE NoError

\* checkArray(array): the message is built before checkArgument is called.
checkArray(a) ==
    IF ~HasProperties(a) THEN PropertyError(a, "constructor")
    ELSE checkArgument(IsArray(a),
            <<"arg expected to be an Array, but got ", ConstructorName(a)>>)

\* checkFunction(func)
checkFunction(func) ==
    IF ~HasProperties(func) THEN PropertyError(func, "name")
    ELSE checkArgument(IsFunction(func),
            <<NameOrAnonymous(func), " arg expected to be a Function, but got ",
              ConstructorName(func)>>)

\* checkCallbackArgsLength(func)
checkCallbackArgsLength_atMostTwo(func) ==
    checkArgument(FnLength(func) <= 2,
        <<NameOrAnonymous(func), " func can only have 1 or 2 args, but found ",
          ToString(FnLength(func))>>)

checkCallbackArgsLength(func) ==
    checkArgument(FnLength(func) = 1 \/ FnLength(func) = 2,
        <<NameOrAnonymous(func), " func can only have 1 or 2 args, but found ",
          ToString(FnLength(func))>>)

\* The check of the ts variant:
\* if (!Array.isArray(array)) throw new TypeError("First argument must be an array")
TsArgumentError_plainError(a) ==
    IF ~IsArray(a)
    THEN Err("Error", "mapFilter", <<"First argument must be an array">>)
    ELSE NoError

TsArgumentError(a) ==
    IF ~IsArray(a)
    THEN Err("TypeError", "mapFilter", <<"First argument must be an array">>)
    ELSE NoError

(***************************************************************************)
(* The pieces of the loop.                                                 *)
(***************************************************************************)
\* `[]`: a new array; its reference and the heap that holds it.
NewArray_alias(h) == [ref |-> InputRef, heap |-> h]

NewArray(h) == [ref |-> Len(h) + 1, heap |-> Append(h, <<>>)]

\* index < array.length
LoopCondition_inclusive(i, len) == i <= len

LoopCondition_skipLast(i, len) == i < len - 1

LoopCondition(i, len) == i < len

\* index++
NextIndex_stuck(i) == i

NextIndex(i) == i + 1

\* if (handleSparse && !(i in array)) continue;   (the ts variant alone)
SkipIndex_never(v, hs, arr, i) == FALSE

SkipIndex_holes(v, hs, arr, i) == ~In(i, arr)

SkipIndex_undefined(v, hs, arr, i) == v = "ts" /\ hs /\ Get(arr, i) = Undefined

SkipIndex(v, hs, arr, i) == v = "ts" /\ hs /\ ~In(i, arr)

\* The arguments a callback is invoked with: runningFilter/runningCallbackfn
\* of the legacy variant, filter(element, i)/template(element, i) of ts.
InvokeArgs_oneBased(v, f, element, i) == <<element, Num(i + 1)>>

InvokeArgs_alwaysBoth(v, f, element, i) == <<element, Num(i)>>

InvokeArgs_byArity(v, f, element, i) ==
    IF FnLength(f) = 1 THEN <<element>> ELSE <<element, Num(i)>>

InvokeArgs(v, f, element, i) ==
    IF v = "legacy" /\ FnLength(f) = 1 THEN <<element>>
    ELSE <<element, Num(i)>>

\* newArray.push(value)
Push_ifTruthy(arr, value) == IF Truthy(value) THEN Append(arr, value) ELSE arr

Push_unshift(arr, value) == <<value>> \o arr

Push(arr, value) == Append(arr, value)

\* The heap after newArray.push(value): the array behind ref grows.
PushTo_inPlace(h, ref, value) == [h EXCEPT ![InputRef] = Push(@, value)]

PushTo(h, ref, value) == [h EXCEPT ![ref] = Push(@, value)]

(***************************************************************************)
(* The references the benchmarks compare mapFilter with.  The callbacks    *)
(* modelled read their first two arguments only, so the array that the     *)
(* native methods pass as a further argument is left out.                  *)
(***************************************************************************)
\* array.filter(f): holes are skipped, f gets (element, index).
RECURSIVE NativeFilterPrefix(_, _, _)
NativeFilterPrefix(arr, k, f) ==
    IF k = 0 THEN <<>>
    ELSE LET rest == NativeFilterPrefix(arr, k - 1, f)
         IN IF arr[k] = Hole THEN rest
            ELSE IF Truthy(Apply(f, <<arr[k], Num(k - 1)>>))
            THEN Append(rest, arr[k])
            ELSE rest

NativeFilter(arr, f) == NativeFilterPrefix(arr, Len(arr), f)

\* array.map(m): holes stay holes, m gets (element, index in arr).
NativeMap(arr, m) ==
    [k \in 1..Len(arr) |->
        IF arr[k] = Hole THEN Hole ELSE Apply(m, <<arr[k], Num(k - 1)>>)]

\* The reducer of the reduce-based reference:
\* if (filter(element, index)) acc.push(mapper(element, index)); return acc
reducer(acc, element, i, f, m) ==
    IF Truthy(Apply(f, <<element, Num(i)>>))
    THEN Append(acc, Apply(m, <<element, Num(i)>>))
    ELSE acc

\* array.reduce(reducer, []) over the first k slots: holes are skipped.
RECURSIVE ArrayReduce(_, _, _, _)
ArrayReduce(arr, k, f, m) ==
    IF k = 0 THEN <<>>
    ELSE IF arr[k] = Hole THEN ArrayReduce(arr, k - 1, f, m)
    ELSE reducer(ArrayReduce(arr, k - 1, f, m), arr[k], k - 1, f, m)

\* reduce(array, filter, mapper)
reduce(arr, f, m) == ArrayReduce(arr, Len(arr), f, m)

(***************************************************************************)
(* State machine.                                                          *)
(***************************************************************************)
\* The parameters and locals of one call, as a record.
Frame(a, f, t, hs, p, i, na, cs, r, e) ==
    [array |-> a, filter |-> f, template |-> t, handleSparse |-> hs,
     pc |-> p, index |-> i, newArray |-> na, calls |-> cs,
     result |-> r, error |-> e]

\* No second call.
NoCall ==
    Frame(Undefined, Undefined, Undefined, FALSE, "none", 0, 0, <<>>,
          Undefined, NoError)

Init ==
    /\ variant \in {"legacy", "ts"}
    /\ handleSparse \in (IF variant = "ts" THEN BOOLEAN ELSE {FALSE})
    /\ \/ /\ array \in NonArrays
          /\ heap = <<>>
       \/ /\ array = Arr(InputRef)
          /\ \E c \in ArrayContents : heap = <<c>>
    /\ filter \in Filters
    /\ template \in Templates
    /\ pc = "start"
    /\ index = 0
    /\ newArray = 0
    /\ calls = <<>>
    /\ result = Undefined
    /\ error = NoError
    /\ suspended = NoCall

\* `throw`: the call ends with the error; nothing in mapFilter catches one.
Throw_returnPartial(e) ==
    /\ pc' = "returned"
    /\ error' = NoError

Throw(e) ==
    /\ pc' = "thrown"
    /\ error' = e

\* The first check of the legacy variant that fails, in the order of the
\* code: kinds, then (for a non-empty array) declared parameter counts.
LegacyKindError_withArity ==
    IF checkArray(array) # NoError THEN checkArray(array)
    ELSE IF checkFunction(filter) # NoError THEN checkFunction(filter)
    ELSE IF checkFunction(template) # NoError THEN checkFunction(template)
    ELSE IF checkCallbackArgsLength(filter) # NoError
    THEN checkCallbackArgsLength(filter)
    ELSE checkCallbackArgsLength(template)

LegacyKindError ==
    IF checkArray(array) # NoError THEN checkArray(array)
    ELSE IF checkFunction(filter) # NoError THEN checkFunction(filter)
    ELSE checkFunction(template)

LegacyArityError_templateFirst ==
    IF checkCallbackArgsLength(template) # NoError
    THEN checkCallbackArgsLength(template)
    ELSE checkCallbackArgsLength(filter)

LegacyArityError ==
    IF checkCallbackArgsLength(filter) # NoError
    THEN checkCallbackArgsLength(filter)
    ELSE checkCallbackArgsLength(template)

\* mapFilter of src/index.js, up to the for loop.
LegacyCall ==
    /\ pc = "start"
    /\ variant = "legacy"
    /\ IF LegacyKindError # NoError
       THEN /\ Throw(LegacyKindError)
            /\ UNCHANGED <<heap, newArray, result>>
       ELSE IF Len(heap[array.n]) = 0
       THEN /\ heap' = NewArray(heap).heap
            /\ result' = Arr(NewArray(heap).ref)
            /\ pc' = "returned"
            /\ UNCHANGED <<newArray, error>>
       ELSE IF LegacyArityError # NoError
       THEN /\ Throw(LegacyArityError)
            /\ UNCHANGED <<heap, newArray, result>>
       ELSE /\ heap' = NewArray(heap).heap
            /\ newArray' = NewArray(heap).ref
            /\ pc' = "loop"
            /\ UNCHANGED <<result, error>>
    /\ UNCHANGED <<variant, array, filter, template, handleSparse, index, calls,
                   suspended>>

\* mapFilter of src/src/index.ts, up to the for loop.
TsCall ==
    /\ pc = "start"
    /\ variant = "ts"
    /\ IF TsArgumentError(array) # NoError
       THEN /\ Throw(TsArgumentError(array))
            /\ UNCHANGED <<heap, newArray>>
       ELSE /\ heap' = NewArray(heap).heap
            /\ newArray' = NewArray(heap).ref
            /\ pc' = "loop"
            /\ UNCHANGED error
    /\ UNCHANGED <<variant, array, filter, template, handleSparse, index, calls,
                   result, suspended>>

\* Two passes in place of the loop: the filter on every element first, then
\* the template on the elements that passed (array.filter(f).map(t), with
\* the index of the input).
Iterate_twoPass ==
    /\ pc = "loop"
    /\ index = 0
    /\ IsFunction(filter) /\ IsFunction(template)
    /\ Len(heap[array.n]) > 0
    /\ LET arr == heap[array.n]
           fcalls == [k \in 1..Len(arr) |->
                        [fn |-> "filter", at |-> k - 1,
                         args |-> <<Get(arr, k - 1), Num(k - 1)>>,
                         ret |-> Apply(filter, <<Get(arr, k - 1), Num(k - 1)>>)]]
           passed == SelectSeq(fcalls, LAMBDA c : Truthy(c.ret))
           tcalls == [k \in 1..Len(passed) |->
                        [fn |-> "template", at |-> passed[k].at,
                         args |-> passed[k].args,
                         ret |-> Apply(template, passed[k].args)]]
       IN /\ calls' = fcalls \o tcalls
          /\ heap' = [heap EXCEPT ![newArray] = [k \in 1..Len(tcalls) |-> tcalls[k].ret]]
          /\ index' = Len(arr)
    /\ UNCHANGED <<variant, array, filter, template, handleSparse, newArray,
                   result, suspended, pc, error>>

\* One turn of the for loop: the hole test, the read of the element, the
\* filter and, when its result is truthy, the template and the push.  A
\* callback that throws ends the call there; what a callback did to the
\* heap stays done.
Iterate ==
    /\ pc = "loop"
    /\ LoopCondition(index, Len(heap[array.n]))
    /\ Len(heap[array.n]) < MaxLen + MaxGrowth
    /\ LET arr == heap[array.n]
           element == Get(arr, index)
           fargs == InvokeArgs(variant, filter, element, index)
           targs == InvokeArgs(variant, template, element, index)
           fcall == [fn |-> "filter", at |-> index, args |-> fargs,
                     ret |-> Apply(filter, fargs)]
           tcall == [fn |-> "template", at |-> index, args |-> targs,
                     ret |-> Apply(template, targs)]
           afterFilter == Effect(filter, fargs, heap)
           afterTemplate == Effect(template, targs, afterFilter)
       IN IF SkipIndex(variant, handleSparse, arr, index)
          THEN /\ index' = NextIndex(index)
               /\ UNCHANGED <<heap, pc, calls, error>>
          ELSE IF ~IsFunction(filter)
          THEN /\ Throw(NotAFunctionError("filter"))
               /\ UNCHANGED <<heap, index, calls>>
          ELSE IF IsRaised(fcall.ret)
          THEN /\ calls' = Append(calls, fcall)
               /\ heap' = afterFilter
               /\ Throw(CallbackError(fcall.ret))
               /\ UNCHANGED index
          ELSE IF ~Truthy(fcall.ret)
          THEN /\ calls' = Append(calls, fcall)
               /\ heap' = afterFilter
               /\ index' = NextIndex(index)
               /\ UNCHANGED <<pc, error>>
          ELSE IF ~IsFunction(template)
          THEN /\ calls' = Append(calls, fcall)
               /\ heap' = afterFilter
               /\ Throw(NotAFunctionError("template"))
               /\ UNCHANGED index
          ELSE IF IsRaised(tcall.ret)
          THEN /\ calls' = Append(Append(calls, fcall), tcall)
               /\ heap' = afterTemplate
               /\ Throw(CallbackError(tcall.ret))
               /\ UNCHANGED index
          ELSE /\ calls' = Append(Append(calls, fcall), tcall)
               /\ heap' = PushTo(afterTemplate, newArray, tcall.ret)
               /\ index' = NextIndex(index)
               /\ UNCHANGED <<pc, error>>
    /\ UNCHANGED <<variant, array, filter, template, handleSparse, newArray,
                   result, suspended>>

\* return newArray;
Return ==
    /\ pc = "loop"
    /\ ~LoopCondition(index, Len(heap[array.n]))
    /\ result' = Arr(newArray)
    /\ pc' = "returned"
    /\ UNCHANGED <<variant, array, filter, template, handleSparse,
                   heap, index, newArray, calls, error, suspended>>

Next == LegacyCall \/ TsCall \/ Iterate \/ Return

Spec == Init /\ [][Next]_vars

\* A call with callbacks that throw or that change the array's length.
InitEffects ==
    /\ variant \in {"legacy", "ts"}
    /\ handleSparse \in (IF variant = "ts" THEN BOOLEAN ELSE {FALSE})
    /\ array = Arr(InputRef)
    /\ \E c \in ArrayContents : heap = <<c>>
    /\ filter \in EffectFilters
    /\ template \in EffectTemplates
    /\ pc = "start"
    /\ index = 0
    /\ newArray = 0
    /\ calls = <<>>
    /\ result = Undefined
    /\ error = NoError
    /\ suspended = NoCall

SpecEffects == InitEffects /\ [][Next]_vars

\* A call is synchronous: once made it runs, a step at a time, until it
\* returns or throws; nothing can suspend or cancel it.
FairSpec == Spec /\ WF_vars(Next)

(***************************************************************************)
(* Two calls under way at once.  JavaScript runs one call at a time; a     *)
(* second call starts while the first is in its loop when a callback of    *)
(* the first makes it, and two call sites that take turns (a generator, a  *)
(* scheduler of steps) pass control back and forth between loop turns.     *)
(* Each call has its own parameters and locals (its activation record);    *)
(* the heap, which holds every array, is the one thing both can reach.     *)
(***************************************************************************)
\* Longest array of the two interleaved calls.
MaxInterleavedLen == 2

InterleavedContents ==
    UNION {[1..n -> {Num(0), Num(1)}] : n \in 0..MaxInterleavedLen}

InterleavedFilters == {Fn("", 1, "identity"), Fn("", 2, "evenIndex")}

InterleavedTemplates == {Fn("", 1, "identity"), Fn("", 2, "join")}

\* The second call is made on the same array or on another one.
InitInterleaved ==
    /\ variant \in {"legacy", "ts"}
    /\ handleSparse = FALSE
    /\ array = Arr(InputRef)
    /\ \E c1, c2 \in InterleavedContents : heap = <<c1, c2>>
    /\ filter \in InterleavedFilters
    /\ template \in InterleavedTemplates
    /\ pc = "start"
    /\ index = 0
    /\ newArray = 0
    /\ calls = <<>>
    /\ result = Undefined
    /\ error = NoError
    /\ \E a \in {Arr(InputRef), Arr(InputRef + 1)} :
       \E f \in InterleavedFilters : \E t \in InterleavedTemplates :
          suspended = Frame(a, f, t, FALSE, "start", 0, 0, <<>>, Undefined, NoError)

\* The parameters and locals of the running call.
Locals ==
    Frame(array, filter, template, handleSparse, pc, index, newArray, calls,
          result, error)

\* What a call finds when control comes back to it: `index` and `newArray`
\* are declared inside mapFilter, so they are its own, whatever the call
\* that ran meanwhile did to its own.
Resume_sharedIndex(frame, running) == [frame EXCEPT !.index = running.index]

Resume(frame, running) == frame

\* Control passes from the running call to the other one, which has steps
\* left: the running call is set aside as it is.
Switch ==
    /\ suspended.pc \in {"start", "loop"}
    /\ LET r == Resume(suspended, Locals)
       IN /\ array' = r.array
          /\ filter' = r.filter
          /\ template' = r.template
          /\ handleSparse' = r.handleSparse
          /\ pc' = r.pc
          /\ index' = r.index
          /\ newArray' = r.newArray
          /\ calls' = r.calls
          /\ result' = r.result
          /\ error' = r.error
    /\ suspended' = Locals
    /\ UNCHANGED <<variant, heap>>

NextInterleaved == LegacyCall \/ TsCall \/ Iterate \/ Return \/ Switch

SpecInterleaved == InitInterleaved /\ [][NextInterleaved]_vars

(***************************************************************************)
(* What the claims are stated with.                                        *)
(***************************************************************************)
\* The slots of the input array and of the returned array.
Input == heap[InputRef]

Output == heap[result.n]

Returned == pc = "returned"

Callable == IsFunction(filter) /\ IsFunction(template)

Dense(arr) == \A k \in 1..Len(arr) : arr[k] # Hole

\* The value a traversal reads at slot k (1-based) of arr.
ValueAt(arr, k) == IF arr[k] = Hole THEN Undefined ELSE arr[k]

\* The argument list of a callback under a calling convention:
\* "both" is (element, index); "arity" is (element) for a callable
\* declared with one parameter and (element, index) otherwise.
ArgsFor(conv, f, e, i) ==
    IF conv = "arity" /\ FnLength(f) = 1 THEN <<e>> ELSE <<e, Num(i)>>

\* The calling convention of the variant at hand.
Convention == IF variant = "legacy" THEN "arity" ELSE "both"

\* Whether holes are skipped in the call at hand.
SkipsHoles == variant = "ts" /\ handleSparse

\* The filter's verdict on slot k of arr.
Passes(arr, k, conv) ==
    Truthy(Apply(filter, ArgsFor(conv, filter, ValueAt(arr, k), k - 1)))

\* The expected output for the first k slots of arr: the template's results
\* for the slots the filter passes, in ascending order of index.
RECURSIVE Expected(_, _, _, _)
Expected(arr, k, conv, skip) ==
    IF k = 0 THEN <<>>
    ELSE LET rest == Expected(arr, k - 1, conv, skip)
         IN IF skip /\ arr[k] = Hole THEN rest
            ELSE IF Passes(arr, k, conv)
            THEN Append(rest, Apply(template,
                        ArgsFor(conv, template, ValueAt(arr, k), k - 1)))
            ELSE rest

\* The positions in the call log of the filter's calls for index i.
FilterCallsAt(i) ==
    {k \in 1..Len(calls) : calls[k].fn = "filter" /\ calls[k].at = i}

Range(seq) == {seq[k] : k \in 1..Len(seq)}

(***************************************************************************)
(* C1  For a dense array and callables that pass validation, the result    *)
(* is exactly the template's results T(S[i], i), in ascending order of i,  *)
(* for the indices whose filter result P(S[i], i) is truthy.               *)
(* As claimed, with both callables applied to (element, index):            *)
(***************************************************************************)
C1_ResultIsFilterMap_AsClaimed ==
    (Returned /\ Callable /\ Dense(Input))
        => Output = Expected(Input, Len(Input), "both", FALSE)

\* C1 amended: the same, with each callable applied as the variant invokes
\* it: (element, index), except that the legacy variant applies a callable
\* declared with exactly one parameter to (element) alone.
C1_ResultIsFilterMap ==
    (Returned /\ Callable /\ Dense(Input))
        => Output = Expected(Input, Len(Input), Convention, FALSE)

\* A legacy call on a dense array returned a non-empty proper selection,
\* and the one-parameter convention made a difference to it.
C1_Witness ==
    /\ Returned /\ Callable /\ Dense(Input)
    /\ Output # <<>>
    /\ Len(Output) < Len(Input)
    /\ Expected(Input, Len(Input), "both", FALSE) # Output

(***************************************************************************)
(* C2  The length of the returned array is the number of visited elements  *)
(* for which the filter is truthy, whatever the template returns: a falsy  *)
(* template result is appended like any other.                             *)
(***************************************************************************)
C2_LengthIsPassCount ==
    (Returned /\ Callable)
        => Len(Output) =
             Cardinality({k \in 1..Len(Input) :
                 /\ ~(SkipsHoles /\ Input[k] = Hole)
                 /\ Passes(Input, k, Convention)})

\* A call returned fewer elements than it was given, one of them falsy.
C2_Witness ==
    /\ Returned /\ Callable
    /\ Len(Output) < Len(Input)
    /\ \E k \in 1..Len(Output) : ~Truthy(Output[k])

(***************************************************************************)
(* C3  Order is preserved: while the loop runs the output built so far is  *)
(* the result for the indices already visited, and a turn of the loop      *)
(* either leaves the output alone or appends one entry at its end.         *)
(***************************************************************************)
C3_PrefixResult ==
    pc = "loop"
        => /\ index <= Len(Input)
           /\ heap[newArray] = Expected(Input, index, Convention, SkipsHoles)

C3_AppendOnly ==
    pc = "loop"
        => LET before == heap[newArray]
               after == heap'[newArray]
           IN /\ newArray' = newArray
              /\ Len(after) \in {Len(before), Len(before) + 1}
              /\ SubSeq(after, 1, Len(before)) = before
              /\ pc' = "returned" => (result' = Arr(newArray) /\ after = before)

C3_OrderPreserved == [](C3_PrefixResult) /\ [][C3_AppendOnly]_vars

\* Mid-loop, with two different entries already in the output.
C3_Witness ==
    /\ pc = "loop"
    /\ index < Len(Input)
    /\ Len(heap[newArray]) >= 2
    /\ heap[newArray][1] # heap[newArray][2]

(***************************************************************************)
(* C4  For an empty array and callables that are functions, the call       *)
(* returns an empty array and invokes neither callable.                    *)
(***************************************************************************)
C4_EmptyInput ==
    (pc # "start" /\ IsArray(array) /\ Input = <<>> /\ Callable)
        => /\ pc \in {"loop", "returned"}
           /\ calls = <<>>
           /\ error = NoError
           /\ Returned => (IsArray(result) /\ Output = <<>>)

C4_Witness ==
    Returned /\ Input = <<>> /\ Callable /\ Output = <<>>

(***************************************************************************)
(* C5  The operation never writes to the input array: no step of a call    *)
(* changes its slots (length, elements, holes, order), whether the call    *)
(* goes on to return or to fail.                                           *)
(***************************************************************************)
C5_InputUnchanged ==
    [][/\ array' = array
       /\ IsArray(array) => heap'[InputRef] = heap[InputRef]]_vars

\* A call failed in the loop, after the filter had been invoked on an
\* element of the input.
C5_Witness ==
    /\ pc = "thrown"
    /\ IsArray(array)
    /\ calls # <<>>
    /\ heap[InputRef] # <<>>

(***************************************************************************)
(* C6  The returned array is a new array, never the input's reference.     *)
(***************************************************************************)
C6_NewInstance ==
    Returned => (IsArray(result) /\ result.n # array.n)

\* Every element passed and was mapped to itself: equal contents.
C6_Witness ==
    Returned /\ Len(Input) >= 2 /\ Output = Input

(***************************************************************************)
(* C7  With handleSparse true, the callables are invoked only for indices  *)
(* present in the array, in ascending order, each with (element, index),   *)
(* and holes contribute nothing to the output.                             *)
(***************************************************************************)
C7_HolesSkipped ==
    (variant = "ts" /\ handleSparse /\ IsArray(array))
        => /\ \A k \in 1..Len(calls) :
                /\ In(calls[k].at, Input)
                /\ calls[k].args = <<Input[calls[k].at + 1], Num(calls[k].at)>>
           /\ \A j, k \in 1..Len(calls) :
                j < k => /\ calls[j].at <= calls[k].at
                         /\ calls[j].fn = calls[k].fn => calls[j].at < calls[k].at
           /\ Returned => Output = Expected(Input, Len(Input), "both", TRUE)

\* A hole between two present elements, both of which reached the output.
C7_Witness ==
    /\ Returned /\ variant = "ts" /\ handleSparse
    /\ Len(Input) = 3 /\ Input[2] = Hole
    /\ Len(Output) = 2

(***************************************************************************)
(* C8  Called without handleSparse, the ts mapFilter skips holes: the      *)
(* filter is never called for a hole, it is called exactly once for each   *)
(* element that is not one, and an array of holes alone yields [].         *)
(***************************************************************************)
C8_DefaultSkipsHoles ==
    (variant = "ts" /\ ~handleSparse /\ IsArray(array) /\ Callable)
        => /\ \A k \in 1..Len(calls) : In(calls[k].at, Input)
           /\ Returned =>
                /\ \A i \in 0..(Len(Input) - 1) :
                     In(i, Input) => Cardinality(FilterCallsAt(i)) = 1
                /\ (\A k \in 1..Len(Input) : Input[k] = Hole) => Output = <<>>

RuntimeTypeName(v) == IF HasProperties(v) THEN ConstructorName(v) ELSE ToStr(v)

C10_NonArrayNamesType ==
    (pc # "start" /\ variant = "legacy" /\ ~IsArray(array))
        => /\ pc = "thrown"
           /\ error.origin # "engine"
           /\ RuntimeTypeName(array) \in Range(error.msg)

(***************************************************************************)
(* C11  In the ts variant a first argument that is not an array (null,     *)
(* undefined, a string, a number, a plain object, a boolean) makes the     *)
(* call throw a TypeError "First argument must be an array", before the    *)
(* filter or the template is invoked.                                      *)
(***************************************************************************)
Terminal == pc \in {"returned", "thrown"}

C11_TsTypeError ==
    (variant = "ts" /\ pc # "start" /\ array \in NonArrays)
        => /\ pc = "thrown"
           /\ error.kind = "TypeError"
           /\ error.msg = <<"First argument must be an array">>
           /\ calls = <<>>
           /\ result = Undefined

\* null was passed with callbacks that could have been invoked.
C11_Witness ==
    /\ variant = "ts" /\ pc = "thrown"
    /\ array = Null
    /\ Callable

(***************************************************************************)
(* C12  In every variant, a filter or template that is not callable, with  *)
(* a non-empty array, makes the call fail with the invalid-argument error  *)
(* of the operation, whose message names the argument ("Anonymous" for a   *)
(* value without a name) and its runtime type.                             *)
(***************************************************************************)
Offender == IF ~IsFunction(filter) THEN filter ELSE template

C12_NonCallableNamesArgument ==
    (Terminal /\ IsArray(array) /\ Input # <<>> /\ ~Callable)
        => /\ pc = "thrown"
           /\ error.origin # "engine"
           /\ NameOrAnonymous(Offender) \in Range(error.msg)
           /\ RuntimeTypeName(Offender) \in Range(error.msg)

(***************************************************************************)
(* C13  In the legacy variant a filter or template declared with 0 or      *)
(* with 3 or more parameters makes the call fail with the arity error,     *)
(* whose message holds the function's name ("Anonymous" without one) and   *)
(* the parameter count found.  As claimed, for any array:                  *)
(***************************************************************************)
BadArity(f) == IsFunction(f) /\ FnLength(f) \notin {1, 2}

ArityMessage(f) ==
    <<IF FnName(f) # "" THEN FnName(f) ELSE "Anonymous",
      " func can only have 1 or 2 args, but found ", ToString(FnLength(f))>>

ArityErrorRaised ==
    /\ pc = "thrown"
    /\ error.kind = "Error"
    /\ error.msg \in {ArityMessage(f) : f \in {g \in {filter, template} : BadArity(g)}}

C13_ArityError_AsClaimed ==
    (variant = "legacy" /\ Terminal /\ IsArray(array) /\ Callable
        /\ (BadArity(filter) \/ BadArity(template)))
        => ArityErrorRaised

\* C13 amended: the same, for a non-empty array (for an empty array the
\* call returns before the parameter counts are looked at).
C13_ArityError ==
    (variant = "legacy" /\ Terminal /\ IsArray(array) /\ Input # <<>> /\ Callable
        /\ (BadArity(filter) \/ BadArity(template)))
        => ArityErrorRaised

\* The arity error named a function that has a name.
C13_Witness ==
    /\ variant = "legacy" /\ pc = "thrown"
    /\ IsArray(array) /\ Callable
    /\ BadArity(filter) /\ FnName(filter) # ""
    /\ error.msg = ArityMessage(filter)

(***************************************************************************)
(* C14  In the legacy variant a callable declared with one parameter is    *)
(* invoked with the element only, one declared with two with (element,     *)
(* index), index being the element's position in the input; the filter    *)
(* and the template are each dispatched on their own parameter count.      *)
(***************************************************************************)
CallableOf(c) == IF c.fn = "filter" THEN filter ELSE template

C14_ArityDispatch ==
    variant = "legacy"
        => \A k \in 1..Len(calls) :
              LET c == calls[k]
                  e == Get(Input, c.at)
              IN /\ FnLength(CallableOf(c)) = 1 => c.args = <<e>>
                 /\ FnLength(CallableOf(c)) = 2 => c.args = <<e, Num(c.at)>>

\* A one-parameter filter and a two-parameter template in the same call,
\* the template invoked past index 0.
C14_Witness ==
    /\ variant = "legacy"
    /\ \E j, k \in 1..Len(calls) :
          /\ calls[j].fn = "filter" /\ Len(calls[j].args) = 1
          /\ calls[k].fn = "template" /\ Len(calls[k].args) = 2
          /\ calls[k].at >= 1

(***************************************************************************)
(* C15  The ts variant invokes the filter and the template with exactly    *)
(* (element, index), whatever parameter count they declare; the index the  *)
(* template gets is the index in the input, not the position in the        *)
(* output.                                                                 *)
(***************************************************************************)
C15_AlwaysElementAndIndex ==
    variant = "ts"
        => \A k \in 1..Len(calls) :
              calls[k].args = <<Get(Input, calls[k].at), Num(calls[k].at)>>

\* The first entry of the output came from an index past 0, through a
\* template that does not declare two parameters.
C15_Witness ==
    /\ variant = "ts"
    /\ FnLength(template) # 2
    /\ \E k \in 1..Len(calls) :
          /\ calls[k].fn = "template"
          /\ calls[k].args[2] = Num(calls[k].at)
          /\ calls[k].at >= 1
          /\ \A j \in 1..(k - 1) : calls[j].fn = "filter"

(***************************************************************************)
(* C16  Validation comes first in every variant: with an invalid argument  *)
(* (a first argument that is not an array, a filter or template that is    *)
(* not callable, in the legacy variant a parameter count outside {1,2}     *)
(* with a non-empty array) the call fails with no callable invoked for     *)
(* any element and returns no output.                                      *)
(***************************************************************************)
InvalidArguments ==
    \/ ~IsArray(array)
    \/ ~Callable
    \/ /\ variant = "legacy"
       /\ Input # <<>>
       /\ (BadArity(filter) \/ BadArity(template))

C16_ValidationFirst ==
    InvalidArguments
        => /\ calls = <<>>
           /\ pc # "returned"
           /\ result = Undefined

(***************************************************************************)
(* C17  In one call the filter is invoked exactly once for each visited    *)
(* element (every index of a dense array) and the template exactly once    *)
(* for each element whose filter result is truthy, never for one whose     *)
(* filter result is falsy.                                                 *)
(***************************************************************************)
TemplateCallsAt(i) ==
    {k \in 1..Len(calls) : calls[k].fn = "template" /\ calls[k].at = i}

\* Index i (0-based) is one the traversal visits.
Visits(i) == ~(SkipsHoles /\ Input[i + 1] = Hole)

C17_CallCounts ==
    (pc \in {"loop", "returned"})
        => /\ \A i \in 0..(Len(Input) - 1) :
                LET done == (pc = "returned" \/ i < index) /\ Visits(i)
                IN /\ Cardinality(FilterCallsAt(i)) = IF done THEN 1 ELSE 0
                   /\ Cardinality(TemplateCallsAt(i)) =
                        IF done /\ Passes(Input, i + 1, Convention) THEN 1 ELSE 0
           /\ \A k \in 1..Len(calls) : calls[k].at < Len(Input)

\* A returned call in which one element passed and another did not.
C17_Witness ==
    /\ Returned
    /\ \E i, j \in 0..(Len(Input) - 1) :
          /\ Cardinality(TemplateCallsAt(i)) = 1
          /\ Cardinality(FilterCallsAt(j)) = 1
          /\ Cardinality(TemplateCallsAt(j)) = 0

(***************************************************************************)
(* C18  For a call that returns, output.length <= input.length, with       *)
(* equality if and only if the filter was truthy for every visited         *)
(* element.  As claimed, for every variant and setting of handleSparse:    *)
(***************************************************************************)
AllVisitedPass ==
    \A k \in 1..Len(Input) : Visits(k - 1) => Passes(Input, k, Convention)

C18_LengthBound_AsClaimed ==
    (Returned /\ Callable)
        => /\ Len(Output) <= Len(Input)
           /\ Len(Output) = Len(Input) <=> AllVisitedPass

\* C18 amended: equality if and only if no index was skipped as a hole and
\* the filter was truthy for every visited element.
C18_LengthBound ==
    (Returned /\ Callable)
        => /\ Len(Output) <= Len(Input)
           /\ Len(Output) = Len(Input)
                <=> (AllVisitedPass /\ \A k \in 1..Len(Input) : Visits(k - 1))

\* Holes were skipped, every visited element passed, the output is shorter.
C18_Witness ==
    /\ Returned /\ Callable /\ SkipsHoles
    /\ AllVisitedPass
    /\ Output # <<>>
    /\ Len(Output) < Len(Input)

(***************************************************************************)
(* C19  For a dense array the ts mapFilter gives the result of the native  *)
(* two-pass array.filter(f).map(m), for one-parameter callbacks and for    *)
(* two-parameter callbacks that use the index.  As claimed:                *)
(***************************************************************************)
NativeResult == NativeMap(NativeFilter(Input, filter), template)

C19_SameAsFilterThenMap_AsClaimed ==
    (variant = "ts" /\ Returned /\ Callable /\ Dense(Input))
        => Output = NativeResult

\* The result of f does not depend on the index it is given.
IndexBlind(f) ==
    \A e \in Values : \A i, j \in 0..MaxLen :
        Apply(f, <<e, Num(i)>>) = Apply(f, <<e, Num(j)>>)

\* C19 amended: the same, for a mapper m whose result does not depend on
\* the index (f may use it): map gives m the position in the filtered
\* array, mapFilter the index in the input.
C19_SameAsFilterThenMap ==
    (variant = "ts" /\ Returned /\ Callable /\ Dense(Input) /\ IndexBlind(template))
        => Output = NativeResult

\* A filter that uses the index kept a proper part of a dense array.
C19_Witness ==
    /\ variant = "ts" /\ Returned /\ Callable /\ Dense(Input)
    /\ IndexBlind(template) /\ ~IndexBlind(filter)
    /\ Output # <<>>
    /\ Len(Output) < Len(Input)
    /\ Output = NativeResult

(***************************************************************************)
(* C20  With handleSparse true the ts mapFilter gives the result of the    *)
(* reduce-based reference for every array, dense or sparse; for a dense    *)
(* array it gives that same result without handleSparse too.               *)
(***************************************************************************)
C20_SameAsReduce ==
    (variant = "ts" /\ Returned /\ Callable /\ (handleSparse \/ Dense(Input)))
        => Output = reduce(Input, filter, template)

\* A sparse array that also holds an explicit undefined, and a non-empty result.
C20_Witness ==
    /\ variant = "ts" /\ Returned /\ Callable /\ handleSparse
    /\ ~Dense(Input)
    /\ Undefined \in Range(Input)
    /\ Output # <<>>

(***************************************************************************)
(* C21  The legacy variant matches the native methods on sparse arrays:    *)
(* for an array with holes and a filter and template declared with one     *)
(* parameter, the result equals sparseArray.filter(P).map(T).  As claimed, *)
(* for callables that read their declared parameter only:                  *)
(***************************************************************************)
\* The result of f is the same with and without an index argument.
ReadsElementOnly(f) ==
    \A e \in Values : \A i \in 0..MaxLen :
        Apply(f, <<e>>) = Apply(f, <<e, Num(i)>>)

OneParameterCall ==
    /\ variant = "legacy" /\ Returned /\ Callable
    /\ FnLength(filter) = 1 /\ FnLength(template) = 1
    /\ ReadsElementOnly(filter) /\ ReadsElementOnly(template)

Filled(arr) == [k \in 1..Len(arr) |-> ValueAt(arr, k)]

RECURSIVE ResultAlone(_, _, _, _, _)
ResultAlone(arr, k, f, t, conv) ==
    IF k = 0 THEN <<>>
    ELSE LET rest == ResultAlone(arr, k - 1, f, t, conv)
             e == ValueAt(arr, k)
         IN IF Truthy(Apply(f, ArgsFor(conv, f, e, k - 1)))
            THEN Append(rest, Apply(t, ArgsFor(conv, t, e, k - 1)))
            ELSE rest

ReturnedAlone(frame) ==
    /\ IsArray(frame.result)
    /\ heap[frame.result.n] =
          ResultAlone(heap[frame.array.n], Len(heap[frame.array.n]),
                      frame.filter, frame.template, Convention)

C22_Reentrant ==
    /\ Returned => ReturnedAlone(Locals)
    /\ suspended.pc = "returned" => ReturnedAlone(suspended)
    /\ (Returned /\ suspended.pc = "returned")
          => /\ result.n # suspended.result.n
             /\ {result.n, suspended.result.n} \cap {array.n, suspended.array.n} = {}
    /\ pc # "thrown" /\ suspended.pc # "thrown"

C22_InputsUnchanged ==
    [][heap'[InputRef] = heap[InputRef]
         /\ heap'[InputRef + 1] = heap[InputRef + 1]]_vars

C22_NoSharedState == [](C22_Reentrant) /\ C22_InputsUnchanged

\* A call on an array ran from start to return while another call on the
\* same array was in the middle of its loop, an entry already in its output.
C22_Witness ==
    /\ Returned
    /\ suspended.pc = "loop"
    /\ suspended.array = array
    /\ suspended.index >= 1
    /\ suspended.index < Len(heap[array.n])
    /\ heap[suspended.newArray] # <<>>
    /\ Output # <<>>
    /\ SubSeq(Output, 1, Len(heap[suspended.newArray])) # heap[suspended.newArray]

(***************************************************************************)
(* C23  No error is recovered and no partial result is returned: when the  *)
(* filter or the template throws at index i, the call ends with that same  *)
(* error, returns no array, and invokes no callable for an index above i   *)
(* (nor anything at all after the call that threw).                        *)
(***************************************************************************)
\* The positions in the call log of the calls that threw.
RaisedCalls == {k \in 1..Len(calls) : IsRaised(calls[k].ret)}

C23_ErrorEndsCall ==
    \A k \in RaisedCalls :
        /\ pc = "thrown"
        /\ error.kind = "Error"
        /\ error.msg = calls[k].ret.s
        /\ result = Undefined
        /\ k = Len(calls)
        /\ index = calls[k].at
        /\ \A j \in 1..Len(calls) : calls[j].at <= calls[k].at

\* A call that ended with an error takes no further step.
C23_NothingAfterError == [][pc # "thrown"]_vars

C23_ErrorPropagates == [](C23_ErrorEndsCall) /\ C23_NothingAfterError

\* The template threw past index 0, entries already in the output array
\* and elements left to visit.
C23_Witness ==
    /\ pc = "thrown"
    /\ RaisedCalls # {}
    /\ calls[Len(calls)].fn = "template"
    /\ heap[newArray] # <<>>
    /\ index + 1 < Len(Input)

(***************************************************************************)
(* C24  In the legacy variant, whenever the loop is running, the filter    *)
(* and the template are functions declared with 1 or 2 parameters: no      *)
(* element is processed with a callable of 0 or of 3 or more parameters.   *)
(***************************************************************************)
C24_LoopArity ==
    (variant = "legacy" /\ (pc = "loop" \/ calls # <<>>))
        => /\ Callable
           /\ FnLength(filter) \in {1, 2}
           /\ FnLength(template) \in {1, 2}

\* Mid-loop in the legacy variant, callbacks of different parameter counts.
C24_Witness ==
    /\ variant = "legacy" /\ pc = "loop"
    /\ index >= 1 /\ index < Len(Input)
    /\ calls # <<>>
    /\ FnLength(filter) # FnLength(template)

(***************************************************************************)
(* C25  The callbacks of one call are invoked in ascending order of index  *)
(* and element by element: the filter for index i, then (when its result   *)
(* is truthy) the template for index i, whose result is in the output      *)
(* before the filter is invoked for any later index.  The filter is never  *)
(* run for all elements first.                                             *)
(***************************************************************************)
\* The results of the template's calls so far, in the order of the calls.
TemplateResults ==
    LET made == SelectSeq(calls, LAMBDA c : c.fn = "template")
    IN [k \in 1..Len(made) |-> made[k].ret]

C25_Interleaved ==
    /\ \A k \in 1..Len(calls) :
          calls[k].fn = "template"
              => /\ k > 1
                 /\ calls[k - 1].fn = "filter"
                 /\ calls[k - 1].at = calls[k].at
                 /\ Truthy(calls[k - 1].ret)
    /\ \A j, k \in 1..Len(calls) :
          j < k => /\ calls[j].at <= calls[k].at
                   /\ calls[j].at = calls[k].at
                        => (calls[j].fn = "filter" /\ calls[k].fn = "template")
    /\ pc = "loop" => heap[newArray] = TemplateResults

\* Mid-loop, the template already called for two elements and the filter
\* not yet for the next.
C25_Witness ==
    /\ pc = "loop"
    /\ index < Len(Input)
    /\ Len(TemplateResults) >= 2
    /\ FilterCallsAt(index) = {}
    /\ calls[Len(calls)].fn = "template"

(***************************************************************************)
(* C26  With handleSparse true only the absent indices are skipped: an     *)
(* index that is present and holds undefined or null is visited like any   *)
(* other (the filter is invoked with that value and its index), so a hole  *)
(* and an explicit undefined are treated differently.                      *)
(***************************************************************************)
C26_OnlyHolesSkipped ==
    (variant = "ts" /\ handleSparse /\ Returned /\ Callable)
        => \A i \in 0..(Len(Input) - 1) :
              IF Input[i + 1] = Hole
              THEN FilterCallsAt(i) = {}
              ELSE /\ Cardinality(FilterCallsAt(i)) = 1
                   /\ \A k \in FilterCallsAt(i) :
                         calls[k].args = <<Input[i + 1], Num(i)>>

\* A hole, an explicit undefined and an explicit null in one array: the
\* last two reached the filter, the hole did not.
C26_Witness ==
    /\ variant = "ts" /\ handleSparse /\ Returned /\ Callable
    /\ {Hole, Undefined, Null} \subseteq Range(Input)
    /\ \E j, k \in 1..Len(calls) :
          /\ calls[j].fn = "filter" /\ calls[j].args[1] = Undefined
          /\ calls[k].fn = "filter" /\ calls[k].args[1] = Null
    /\ Len(calls) >= 2
    /\ \A i \in 0..(Len(Input) - 1) : Input[i + 1] = Hole => FilterCallsAt(i) = {}

(***************************************************************************)
(* C27  In the legacy variant the return for an empty array sits between   *)
(* the two stages of validation: with an empty array the kinds of the      *)
(* callables are still checked (one that is not a function fails), their   *)
(* parameter counts are not, so an empty array with a filter or template   *)
(* of 0 or of 3 or more parameters returns [] without any error.           *)
(***************************************************************************)
C27_EmptyBetweenStages ==
    (variant = "legacy" /\ pc # "start" /\ IsArray(array) /\ Input = <<>>)
        => IF Callable
           THEN /\ Returned
                /\ error = NoError
                /\ calls = <<>>
                /\ IsArray(result) /\ Output = <<>>
           ELSE /\ pc = "thrown"
                /\ error # NoError
                /\ result = Undefined
                /\ calls = <<>>

\* [] came back for callables that a non-empty array would be refused with.
C27_Witness ==
    /\ variant = "legacy" /\ Returned
    /\ Input = <<>> /\ Output = <<>>
    /\ BadArity(filter) /\ BadArity(template)
    /\ FnLength(filter) # FnLength(template)

(***************************************************************************)
(* C28  In the legacy variant, when several arguments are invalid at       *)
(* once, exactly one error is raised, that of the first check to fail in   *)
(* the order: array kind, filter kind, template kind, filter parameter     *)
(* count, template parameter count (the last two made for a non-empty      *)
(* array); with both callables of 0 parameters the error names the filter. *)
(***************************************************************************)
ChecksInOrder ==
    <<checkArray(array), checkFunction(filter), checkFunction(template)>>
    \o (IF IsArray(array) /\ Callable /\ Input # <<>>
        THEN <<checkCallbackArgsLength(filter), checkCallbackArgsLength(template)>>
        ELSE <<>>)

Failing == {k \in 1..Len(ChecksInOrder) : ChecksInOrder[k] # NoError}

FirstFailing ==
    IF Failing = {} THEN NoError
    ELSE ChecksInOrder[CHOOSE k \in Failing : \A j \in Failing : k <= j]

C29_VisitsBelowLength ==
    calls' # calls
        => /\ index < Len(heap[array.n])
           /\ calls'[Len(calls) + 1].at = index
           /\ calls'[Len(calls) + 1].args[1] = Get(heap[array.n], index)

\* The call returns only once the index has reached the length the array
\* has then.
C29_ReturnsAtLength ==
    (pc = "loop" /\ pc' = "returned") => index >= Len(heap[array.n])

\* The filter appends at every invocation and nothing removes or throws.
AlwaysAppending ==
    /\ FnBody(filter) = "pushTrue"
    /\ FnBody(template) \in {"identity", "pushIdentity"}

\* The filter removes the last element at every invocation and nothing
\* appends or throws.
AlwaysShortening ==
    /\ FnBody(filter) = "popTrue"
    /\ FnBody(template) = "identity"

\* Neither callback removes elements.
NoShortening ==
    {FnBody(filter), FnBody(template)} \cap {"popTrue", "popIdentity"} = {}

C29_State ==
    /\ Returned =>
          /\ index >= Len(Input)
          /\ ~SkipsHoles =>
                \A i \in 0..(Len(Input) - 1) : Cardinality(FilterCallsAt(i)) = 1
          /\ NoShortening =>
                \A i \in 0..(Len(Input) - 1) :
                    Input[i + 1] = Appended
                        => \E k \in FilterCallsAt(i) : calls[k].args[1] = Appended
    /\ (AlwaysAppending /\ calls # <<>>)
          => (pc = "loop" /\ index < Len(Input))
    /\ (AlwaysShortening /\ Returned /\ ~SkipsHoles)
          => /\ Cardinality({k \in 1..Len(calls) : calls[k].fn = "filter"}) = index
             /\ index - Len(Input) \in {0, 1}

C30_IndexStep ==
    /\ (pc = "loop" /\ pc' = "loop") => index' = index + 1
    /\ (pc # "loop" \/ pc' # "loop") => index' = index

\* The index counts the turns completed: never more than the length, and
\* one short of it at least when a turn ended the call with an error.
C30_TurnsBounded ==
    /\ IsArray(array) => index <= Len(Input)
    /\ (pc = "thrown" /\ calls # <<>>) => index < Len(Input)

C30_Terminates ==
    /\ <>Terminal
    /\ [](C30_TurnsBounded)
    /\ [][C30_IndexStep]_vars

\* A call returned after as many turns as the array is long, some of them
\* without a push.
C30_Witness ==
    /\ Returned
    /\ index = Len(Input)
    /\ index = MaxLen
    /\ Len(Output) < index

====
